---- MODULE Spec2Model ----
(***************************************************************************)
(* A model of pkgcheck2html.py: classification of pkgcheck results, the    *)
(* maintainer and package filters, the project membership resolution and   *)
(* the grouping of the sorted results for rendering.                       *)
(*                                                                         *)
(* Strings that are only compared are TLA+ strings; StrOrder lists the     *)
(* ones that get sorted in code point order.  Strings that are cut, joined *)
(* or rewritten (e-mail addresses, package locators, the --pkg argument)   *)
(* are sequences of tokens, see Tok.                                       *)
(***************************************************************************)
EXTENDS Integers, Sequences, FiniteSets, TLC

VARIABLES
    pc,             \* position in main()
    class_mapping,  \* pkgcheck2html.conf.json
    excludes,       \* the --excludes JSON document
    argv,           \* the command line as given
    args,           \* the parsed command line, as main rewrites it
    files,          \* the <result/> elements of the input, in document order
    repo,           \* the metadata.xml of each package directory of --repo
    projects,       \* the <project/> elements of metadata/projects.xml
    match,          \* main's match: the identities the maintainer filter accepts
    proj,           \* find_projects_for_maintainer: the index of its project x
    frames,         \* the ProjectGetter.__getitem__ generators, innermost last
    members,        \* the e-mails yielded so far to frozenset(self[...])
    results,        \* main's sorted list of Result objects
    tree,           \* deep_group(results), fully expanded
    errors,         \* find_of_class(results, 'err')
    css,            \* what css_class returned in get_results, per element read
    lookups,        \* the calls of maints[...] made by the filter, in order
    exc             \* the exception that ended the run, or "none"

vars == <<pc, argv, class_mapping, excludes, args, files, repo, projects, match, proj,
          frames, members, results, tree, errors, css, lookups, exc>>

----------------------------------------------------------------------------
(* Bounds *)

MaxResults == 3

\* the length of the documents that are classified under varying rules
MaxClassified == 2

\* the length of the documents that go through the filters
MaxFiltered == 2

\* the number of tokens of --pkg
MaxPkgLen == 4

----------------------------------------------------------------------------
(* Python values *)

\* findtext's result for a child element that does not exist
None == "None"

\* {} of Python
EmptyDict == <<>>

\* dict.get(k, default)
DictGet(d, k, default) == IF k \in DOMAIN d THEN d[k] ELSE default

\* x in list
InList(x, l) == \E i \in 1..Len(l) : l[i] = x

\* the strings that are sorted, in code point order
StrOrder == <<"", "1", "2", "X", "Y", "Z", "a", "b", "p", "q">>

Rank(s) == CHOOSE i \in 1..Len(StrOrder) : StrOrder[i] = s

\* s < t on tuples of strings: the first difference decides, a proper prefix is less
RECURSIVE TupleLess(_, _)
TupleLess(s, t) ==
    IF s = <<>> THEN t # <<>>
    ELSE IF t = <<>> THEN FALSE
    ELSE IF Head(s) # Head(t) THEN Rank(Head(s)) < Rank(Head(t))
    ELSE TupleLess(Tail(s), Tail(t))

\* s[:n]
Slice(s, n) == SubSeq(s, 1, IF n < Len(s) THEN n ELSE Len(s))

----------------------------------------------------------------------------
(* lxml elements: a function from the tags of the children to their text *)

\* el.findtext(key, default)
FindText(el, key, default) == IF key \in DOMAIN el THEN el[key] ELSE default

----------------------------------------------------------------------------
(* ClassMapping *)

\* ClassMapping.map that does not look at the excludes
MapBase(el) == DictGet(class_mapping, FindText(el, "class", ""), "")

\* ClassMapping.map
Map(el) ==
    LET cls == FindText(el, "class", "")
        cat == FindText(el, "category", "")
        pkg == FindText(el, "package", "")
        ver == FindText(el, "version", "")
    IN  IF InList(cls, DictGet(DictGet(DictGet(excludes, cat, EmptyDict),
                                       pkg, EmptyDict), ver, <<>>))
        THEN ""
        ELSE DictGet(class_mapping, cls, "")

----------------------------------------------------------------------------
(* Result: the element itself, the class mapper being the only one *)

\* Result.__getattr__
GetAttr(r, key) ==
    LET t == FindText(r, key, None)
    IN  IF t = None \/ t = "" THEN "" ELSE t

\* Result.css_class
css_class(r) == Map(r)

\* Result.verbose
verbose(r) == css_class(r) = "verbose"

result_sort_key(r) ==
    <<GetAttr(r, "category"), GetAttr(r, "package"), GetAttr(r, "version"),
      GetAttr(r, "class")>>

\* list.sort is stable: an element goes behind the ones whose key is not greater
RECURSIVE Insert(_, _)
Insert(s, r) ==
    IF s = <<>> THEN <<r>>
    ELSE IF TupleLess(result_sort_key(r), result_sort_key(Head(s)))
         THEN <<r>> \o s
         ELSE <<Head(s)>> \o Insert(Tail(s), r)

\* no sort at all
Unsorted(it) == it

\* sorted(it, key=result_sort_key)
RECURSIVE Sorted(_)
Sorted(it) ==
    IF it = <<>> THEN <<>>
    ELSE Insert(Sorted(SubSeq(it, 1, Len(it) - 1)), it[Len(it)])

----------------------------------------------------------------------------
(* Grouping *)

\* the group of one result in split_result_group
SplitKey(r) ==
    IF GetAttr(r, "category") = "" THEN <<>>
    ELSE IF GetAttr(r, "package") = "" THEN <<GetAttr(r, "category")>>
    ELSE IF GetAttr(r, "version") = ""
         THEN <<GetAttr(r, "category"), GetAttr(r, "package")>>
         ELSE <<GetAttr(r, "category"), GetAttr(r, "package"),
                GetAttr(r, "version")>>

split_result_group(it) == [i \in 1..Len(it) |-> <<SplitKey(it[i]), it[i]>>]

\* the loop of group_results from its i-th iteration on, and the final yield
RECURSIVE GroupLoop(_, _, _, _, _, _)
GroupLoop(gs, i, level, prev_group, prev_l, out) ==
    IF i > Len(gs) THEN Append(out, <<prev_group, prev_l>>)
    ELSE LET g == Slice(gs[i][1], level)
             r == gs[i][2]
             changed == g # prev_group
         IN  GroupLoop(gs, i + 1, level,
                       IF changed THEN g ELSE prev_group,
                       Append(IF changed THEN <<>> ELSE prev_l, r),
                       IF changed /\ prev_l # <<>>
                       THEN Append(out, <<prev_group, prev_l>>)
                       ELSE out)

\* group_results without the yield behind its loop
group_results_unflushed(it, level) ==
    LET out == GroupLoop(split_result_group(it), 1, level, <<>>, <<>>, <<>>)
    IN  SubSeq(out, 1, Len(out) - 1)

\* group_results: the sequence of the (group, list) pairs it yields
group_results(it, level) ==
    GroupLoop(split_result_group(it), 1, level, <<>>, <<>>, <<>>)

RECURSIVE Concat(_)
Concat(ss) == IF ss = <<>> THEN <<>> ELSE Head(ss) \o Concat(Tail(ss))

\* deep_group that takes level 3 for the level of the results
RECURSIVE deep_group_short(_, _)
deep_group_short(it, level) ==
    LET gs == GroupLoop(split_result_group(it), 1, level, <<>>, <<>>, <<>>)
    IN  IF level >= 3
        THEN Concat([i \in 1..Len(gs) |-> gs[i][2]])
        ELSE [i \in 1..Len(gs) |->
                 [group |-> gs[i][1],
                  items |-> deep_group_short(gs[i][2], level + 1)]]

\* deep_group with its nested generators run to their end: below level 3 the
\* results themselves, above it one node per group
RECURSIVE deep_group(_, _)
deep_group(it, level) ==
    LET gs == group_results(it, level)
    IN  IF level > 3
        THEN Concat([i \in 1..Len(gs) |-> gs[i][2]])
        ELSE [i \in 1..Len(gs) |->
                 [group |-> gs[i][1], items |-> deep_group(gs[i][2], level + 1)]]

\* sorted(S) for a set of tuples of strings
RECURSIVE SortedTuples(_)
SortedTuples(S) ==
    IF S = {} THEN <<>>
    ELSE LET m == CHOOSE x \in S : \A y \in S \ {x} : TupleLess(x, y)
         IN  <<m>> \o SortedTuples(S \ {m})

\* find_of_class that leaves a group at its first result of the class
find_of_class_first(it, cls, level) ==
    LET gs == group_results(it, level)
        hit(i) == {j \in 1..Len(gs[i][2]) : css_class(gs[i][2][j]) = cls}
        first(i) == CHOOSE j \in hit(i) : \A h \in hit(i) : j <= h
        out == {<<GetAttr(gs[i][2][first(i)], "class"), gs[i][1]>> :
                    i \in {n \in 1..Len(gs) : hit(n) # {}}}
        keys == SortedTuples({<<p[1]>> : p \in out})
    IN  [n \in 1..Len(keys) |->
            <<keys[n][1], SortedTuples({p[2] : p \in {q \in out : q[1] = keys[n][1]}})>>]

\* find_of_class: out as the set of (class, group) pairs, then the sorted list
find_of_class(it, cls, level) ==
    LET gs == group_results(it, level)
        out == {<<GetAttr(gs[i][2][j], "class"), gs[i][1]>> :
                    <<i, j>> \in {p \in (1..Len(gs)) \X (1..Len(it)) :
                                     /\ p[2] <= Len(gs[p[1]][2])
                                     /\ css_class(gs[p[1]][2][p[2]]) = cls}}
        keys == SortedTuples({<<p[1]>> : p \in out})
    IN  [n \in 1..Len(keys) |->
            <<keys[n][1], SortedTuples({p[2] : p \in {q \in out : q[1] = keys[n][1]}})>>]

----------------------------------------------------------------------------
(* Strings that are cut, joined or rewritten: sequences of tokens.  The    *)
(* tokens are chosen so that none is a prefix of another and no searched   *)
(* substring ('@', '@g.o', '@gentoo.org', ',') starts inside a token or    *)
(* runs over two, so the operations below are those of str.                *)

\* a string that is compared as a whole, as a string of at most one token
Tok(s) == IF s = "" THEN <<>> ELSE <<s>>

AtTokens == {"@gentoo.org", "@g.o", "@ex.org"}

\* '@' in s
HasAt(s) == \E i \in 1..Len(s) : s[i] \in AtTokens

\* s.endswith(t), t one token
EndsWith(s, t) == s # <<>> /\ s[Len(s)] = t

\* s.replace(old, new), old and new one token each
Replace(s, old, new) == [i \in 1..Len(s) |-> IF s[i] = old THEN new ELSE s[i]]

\* s.split(t): the pieces between the occurrences of the token t
RECURSIVE SplitLoop(_, _, _, _)
SplitLoop(s, t, cur, out) ==
    IF s = <<>> THEN Append(out, cur)
    ELSE IF Head(s) = t THEN SplitLoop(Tail(s), t, <<>>, Append(out, cur))
    ELSE SplitLoop(Tail(s), t, Append(cur, Head(s)), out)

Split(s, t) == SplitLoop(s, t, <<>>, <<>>)

\* '/'.join((x.category, x.package))
Locator(x) ==
    Tok(GetAttr(x, "category")) \o <<"/">> \o Tok(GetAttr(x, "package"))

\* frozenset(l)
FrozenSet(l) == {l[i] : i \in 1..Len(l)}

----------------------------------------------------------------------------
(* MaintainerGetter.  repo[k] is what lxml.etree.parse finds at            *)
(* <repo>/<k>/metadata.xml: parse is "OSError" (the file cannot be read),  *)
(* "XMLSyntaxError" (it is not well-formed) or "ok", and maintainer is the *)
(* sequence of the <maintainer/> children of the root.  A call returns     *)
(* [exc, value]: the exception it raises or "none", and the value it       *)
(* returns.                                                                *)

\* format_maint that leaves the address as it is
format_maint_raw(el) == el.email

\* format_maint; el has an <email/> child
format_maint(el) == Replace(el.email, "@gentoo.org", "@g.o")

\* MaintainerGetter.__getitem__
MaintainerGetter(k) ==
    LET metadata == repo[k]
        maints == [i \in 1..Len(metadata.maintainer) |->
                      format_maint(metadata.maintainer[i])]
    IN  IF metadata.parse = "OSError" THEN [exc |-> "none", value |-> <<>>]
        ELSE IF metadata.parse # "ok"
             THEN [exc |-> metadata.parse, value |-> <<>>]
        ELSE IF \E i \in 1..Len(metadata.maintainer) :
                    "email" \notin DOMAIN metadata.maintainer[i]
             \* None.replace
             THEN [exc |-> "AttributeError", value |-> <<>>]
        ELSE [exc |-> "none",
              value |-> IF maints # <<>> THEN maints
                        ELSE <<<<"maintainer-needed">>>>]

----------------------------------------------------------------------------
(* The filters of main *)

\* main, lines 208-211: the maintainer as a full e-mail address
FullAddress(m) ==
    IF ~HasAt(m) THEN m \o <<"@gentoo.org">>
    ELSE IF EndsWith(m, "@g.o") THEN Replace(m, "@g.o", "@gentoo.org")
    ELSE m

\* maint_filter that accepts whatever has a maintainer
maint_filter_any(maints) == maints # <<>>

\* maint_filter once a maintainer is given, on the result of maints[...]
maint_filter(maints) == match \cap FrozenSet(maints) # {}

\* s occurs in t, as a substring
Within(s, t) ==
    \E i \in 1..Len(t) :
        i + Len(s) - 1 <= Len(t) /\ SubSeq(t, i, i + Len(s) - 1) = s

\* pkg_filter that looks for the locator in --pkg itself, not in its pieces
pkg_filter_substring(x) == args.pkg = <<>> \/ Within(Locator(x), args.pkg)

\* pkg_filter
pkg_filter(x) ==
    args.pkg = <<>> \/ FrozenSet(Split(args.pkg, ",")) \cap {Locator(x)} # {}

\* the loop of get_results from the i-th element on.  st holds what happened
\* so far: value, the results yielded; css, what css_class returned for each
\* element looked at; lookups, the calls of maints[...] with their outcome.
\* combined_filter calls maint_filter first, and pkg_filter only if it accepts
RECURSIVE GetLoop(_, _)
GetLoop(i, st) ==
    IF i > Len(files) THEN [exc |-> "none"] @@ st
    ELSE LET r == files[i]
             m == MaintainerGetter(Locator(r))
             st1 == [st EXCEPT !.css = Append(@, css_class(r))]
             st2 == [st1 EXCEPT !.lookups =
                        Append(@, [k |-> Locator(r), exc |-> m.exc,
                                   value |-> m.value])]
         IN  IF verbose(r) /\ ~args.verbose THEN GetLoop(i + 1, st1)
             ELSE IF args.maintainer = <<>>
                  THEN IF pkg_filter(r)
                       THEN GetLoop(i + 1, [st1 EXCEPT !.value = Append(@, r)])
                       ELSE GetLoop(i + 1, st1)
             ELSE IF m.exc # "none" THEN [exc |-> m.exc] @@ st2
             ELSE IF maint_filter(m.value) /\ pkg_filter(r)
                  THEN GetLoop(i + 1, [st2 EXCEPT !.value = Append(@, r)])
                  ELSE GetLoop(i + 1, st2)

get_results == GetLoop(1, [value |-> <<>>, css |-> <<>>, lookups |-> <<>>])

----------------------------------------------------------------------------
(* main *)

\* the generator of self[k], about to look at its first project
Frame(k) == [k |-> k, x |-> 1, pos |-> 1]

\* main, line 221
ShortForms(S) == {Replace(x, "@gentoo.org", "@g.o") : x \in S}

\* main, lines 205-232, up to the call of find_projects_for_maintainer
BuildFilters ==
    /\ pc = "filters"
    /\ LET m == FullAddress(args.maintainer)
       IN  IF args.maintainer = <<>>
           THEN /\ UNCHANGED <<args, match, proj, frames>>
                /\ pc' = "results"
           ELSE /\ args' = [args EXCEPT !.maintainer = m]
                /\ IF m = <<"maintainer-needed", "@gentoo.org">>
                   THEN /\ match' = {<<"maintainer-needed">>}
                        /\ pc' = "results"
                        /\ UNCHANGED <<proj, frames>>
                   ELSE IF args.projects /\ projects # <<>>
                   THEN /\ match' = {m}
                        /\ pc' = "projects"
                        /\ proj' = 1
                        /\ frames' = <<Frame(projects[1].email)>>
                   ELSE /\ match' = ShortForms({m})
                        /\ pc' = "results"
                        /\ UNCHANGED <<proj, frames>>
    /\ UNCHANGED <<argv, class_mapping, excludes, files, repo, projects, members,
                   results, tree, errors, css, lookups, exc>>

\* the sys.getrecursionlimit() of the model
RecursionLimit == 5

Top == frames[Len(frames)]

SetTop(f) == [frames EXCEPT ![Len(frames)] = f]

\* the children of project x that self[k] goes through: its members, then
\* its subprojects
NMembers(x) == Len(projects[x].member)
NItems(x) == NMembers(x) + Len(projects[x].subproject)

\* __getitem__, line 136-137: the next project, when x is not k or is done
ProjectNext ==
    /\ pc = "projects" /\ frames # <<>>
    /\ Top.x <= Len(projects)
    /\ projects[Top.x].email # Top.k \/ Top.pos > NItems(Top.x)
    /\ frames' = SetTop([Top EXCEPT !.x = @ + 1, !.pos = 1])
    /\ UNCHANGED <<pc, argv, class_mapping, excludes, args, files, repo, projects,
                   match, proj, members, results, tree, errors, css, lookups, exc>>

\* __getitem__, lines 139-140 (and 145-146 in every calling generator): a
\* member's e-mail reaches frozenset
ProjectYield ==
    /\ pc = "projects" /\ frames # <<>>
    /\ Top.x <= Len(projects)
    /\ projects[Top.x].email = Top.k
    /\ Top.pos <= NMembers(Top.x)
    /\ members' = members \cup {projects[Top.x].member[Top.pos]}
    /\ frames' = SetTop([Top EXCEPT !.pos = @ + 1])
    /\ UNCHANGED <<pc, argv, class_mapping, excludes, args, files, repo, projects,
                   match, proj, results, tree, errors, css, lookups, exc>>

\* __getitem__, lines 143-145: a subproject; one that inherits members starts
\* the generator self[sp.get('ref')], one more frame on the interpreter's stack
ProjectSubproject ==
    /\ pc = "projects" /\ frames # <<>>
    /\ Top.x <= Len(projects)
    /\ projects[Top.x].email = Top.k
    /\ Top.pos > NMembers(Top.x) /\ Top.pos <= NItems(Top.x)
    /\ LET sp == projects[Top.x].subproject[Top.pos - NMembers(Top.x)]
           here == SetTop([Top EXCEPT !.pos = @ + 1])
       IN  IF sp.inherit # "1"
           THEN frames' = here /\ UNCHANGED <<pc, exc>>
           ELSE IF Len(frames) >= RecursionLimit
           THEN /\ exc' = "RecursionError"
                /\ pc' = "raised"
                /\ UNCHANGED frames
           ELSE /\ frames' = Append(here, Frame(sp.ref))
                /\ UNCHANGED <<pc, exc>>
    /\ UNCHANGED <<argv, class_mapping, excludes, args, files, repo, projects,
                   match, proj, members, results, tree, errors, css, lookups>>

\* __getitem__ is exhausted.  For the outermost generator frozenset is complete:
\* find_projects_for_maintainer, lines 131-133, and after its last project
\* main, line 221
ProjectReturn ==
    /\ pc = "projects" /\ frames # <<>>
    /\ Top.x > Len(projects)
    /\ IF Len(frames) > 1
       THEN /\ frames' = SubSeq(frames, 1, Len(frames) - 1)
            /\ UNCHANGED <<pc, match, proj, members>>
       ELSE LET found == IF args.maintainer \in members
                         THEN match \cup {projects[proj].email}
                         ELSE match
            IN  /\ members' = {}
                /\ proj' = proj + 1
                /\ IF proj < Len(projects)
                   THEN /\ frames' = <<Frame(projects[proj + 1].email)>>
                        /\ match' = found
                        /\ pc' = pc
                   ELSE /\ frames' = <<>>
                        /\ match' = ShortForms(found)
                        /\ pc' = "results"
    /\ UNCHANGED <<argv, class_mapping, excludes, args, files, repo, projects,
                   results, tree, errors, css, lookups, exc>>

\* main, lines 233-236: get_results run to its end by sorted
GetResults ==
    /\ pc = "results"
    /\ LET got == get_results
       IN  /\ IF got.exc # "none"
              THEN /\ exc' = got.exc
                   /\ pc' = "raised"
                   /\ UNCHANGED results
              ELSE /\ results' = Sorted(got.value)
                   /\ pc' = "render"
                   /\ UNCHANGED exc
           /\ css' = got.css
           /\ lookups' = got.lookups
    /\ UNCHANGED <<argv, class_mapping, excludes, args, files, repo, projects, match,
                   proj, frames, members, tree, errors>>

\* main, lines 250-259: what t.render is given and iterates over
Render ==
    /\ pc = "render"
    /\ tree' = deep_group(results, 1)
    /\ errors' = find_of_class(results, "err", 2)
    /\ pc' = "done"
    /\ UNCHANGED <<argv, class_mapping, excludes, args, files, repo, projects, match,
                   proj, frames, members, results, css, lookups, exc>>

----------------------------------------------------------------------------
(* The inputs of a run *)

\* a <result/> element: class and msg always, the others when given
Element(cat, pkg, ver, cls, n) ==
    [class |-> cls, msg |-> ToString(n)]
        @@ (IF cat = None THEN <<>> ELSE [category |-> cat])
        @@ (IF pkg = None THEN <<>> ELSE [package |-> pkg])
        @@ (IF ver = None THEN <<>> ELSE [version |-> ver])

\* the n-th element of a document, its msg telling it from the others
Elements(cats, pkgs, vers, clss, n) ==
    {Element(c, p, v, k, n) : c \in cats, p \in pkgs, v \in vers, k \in clss}

\* the documents of at most max elements
Documents(cats, pkgs, vers, clss, max) ==
    UNION {{f \in [1..n -> UNION {Elements(cats, pkgs, vers, clss, i) : i \in 1..n}] :
               \A i \in 1..n : f[i].msg = ToString(i)} : n \in 0..max}

NoArgs == [maintainer |-> <<>>, projects |-> FALSE, pkg |-> <<>>, verbose |-> FALSE]

\* the state of main before it builds its filters
Start(a, cm, ex, fs, rp, ps) ==
    /\ pc = "filters"
    /\ argv = a
    /\ args = a
    /\ class_mapping = cm
    /\ excludes = ex
    /\ files = fs
    /\ repo = rp
    /\ projects = ps
    /\ match = {}
    /\ proj = 0
    /\ frames = <<>>
    /\ members = {}
    /\ results = <<>>
    /\ tree = <<>>
    /\ errors = <<>>
    /\ css = <<>>
    /\ lookups = <<>>
    /\ exc = "none"

\* locators without a metadata.xml
NoRepo == [k \in {} |-> k]

\* X is excluded for a/p-1
ExcludeX == "a" :> ("p" :> ("1" :> <<"X">>))

\* runs that group: no filter, any document, two classes of errors of which
\* one is excluded for one version
InitGroup ==
    \E fs \in Documents({None, "a", "b"}, {"", "p"}, {None, "1"}, {"X", "Y"},
                        MaxResults) :
        Start(NoArgs, [X |-> "err", Y |-> "err"], ExcludeX, fs, NoRepo, <<>>)

NextGroup == BuildFilters \/ GetResults \/ Render

SpecGroup == InitGroup /\ [][NextGroup]_vars

ExcludeTables ==
    { EmptyDict,
      "a" :> EmptyDict,
      "a" :> ("p" :> EmptyDict),
      "a" :> ("p" :> ("1" :> <<>>)),
      ExcludeX,
      "a" :> ("p" :> ("" :> <<"Y", "X">>)),
      "" :> ("" :> ("" :> <<"X">>)),
      ("a" :> ("" :> ("1" :> <<"Y">>))) @@ ("b" :> ("p" :> ("1" :> <<"X">>))) }

ClassMappings ==
    { EmptyDict, [X |-> "err", Y |-> "warn"], [X |-> "verbose", Y |-> "err"] }

\* runs that classify: any rules, short documents, with and without --verbose
InitMap ==
    \E fs \in Documents({None, "a"}, {"", "p"}, {None, "1"}, {"X", "Y"},
                        MaxClassified),
       cm \in ClassMappings, ex \in ExcludeTables, v \in BOOLEAN :
        Start([NoArgs EXCEPT !.verbose = v], cm, ex, fs, NoRepo, <<>>)

SpecMap == InitMap /\ [][NextGroup]_vars

\* the strings of at most max tokens
Strings(tokens, max) == UNION {[1..n -> tokens] : n \in 0..max}

\* runs with --pkg: any list of locators, well-formed or not
InitPkg ==
    \E fs \in Documents({None, "a"}, {"", "p"}, {"1"}, {"X"}, MaxFiltered),
       pkg \in Strings({"a", "p", "/", ","}, MaxPkgLen) :
        Start([NoArgs EXCEPT !.pkg = pkg], [X |-> "err"], EmptyDict, fs,
              NoRepo, <<>>)

SpecPkg == InitPkg /\ [][NextGroup]_vars

Dev == <<"dev", "@gentoo.org">>
Joe == <<"joe", "@ex.org">>
P1 == <<"p1", "@gentoo.org">>
P2 == <<"p2", "@gentoo.org">>
P3 == <<"p3", "@gentoo.org">>

\* a <project/> element and a <subproject/> element
Project(email, member, subproject) ==
    [email |-> email, member |-> member, subproject |-> subproject]

Subproject(ref, inherit) == [ref |-> ref, inherit |-> inherit]

MemberLists == {<<>>, <<Dev>>, <<Joe, Dev>>}

\* what a project lists as subprojects, other being the other project;
\* no project has the e-mail P3
SubprojectLists(self, other) ==
    { <<>>,
      <<Subproject(other, "1")>>,
      <<Subproject(other, "0")>>,
      <<Subproject(self, "1")>>,
      <<Subproject(P3, "1"), Subproject(other, "1")>> }

\* projects.xml with the projects P1 and P2
ProjectFiles ==
    { <<Project(P1, m1, s1), Project(P2, m2, s2)>> :
          m1 \in MemberLists, m2 \in MemberLists,
          s1 \in SubprojectLists(P1, P2), s2 \in SubprojectLists(P2, P1) }

\* what is found at metadata.xml
Missing == [parse |-> "OSError", maintainer |-> <<>>]
Malformed == [parse |-> "XMLSyntaxError", maintainer |-> <<>>]
Metadata(maintainer) == [parse |-> "ok", maintainer |-> maintainer]

MetadataFiles ==
    { Missing, Malformed, Metadata(<<>>),
      Metadata(<<[email |-> Dev]>>),
      Metadata(<<[email |-> Joe], [email |-> P2]>>),
      Metadata(<<[email |-> Dev], [name |-> "Nobody"]>>) }

PackageDirs == {<<"a", "/", "p">>, <<"a", "/", "q">>}

\* runs with --maintainer and --projects: any projects.xml
InitProj ==
    \E ps \in ProjectFiles, m \in {<<"dev">>, Joe},
       fs \in Documents({"a"}, {"p"}, {"1"}, {"X"}, 1) :
        Start([NoArgs EXCEPT !.maintainer = m, !.projects = TRUE],
              [X |-> "err"], EmptyDict, fs,
              [k \in PackageDirs |-> Metadata(<<[email |-> P2]>>)], ps)

Next ==
    \/ BuildFilters
    \/ ProjectNext
    \/ ProjectYield
    \/ ProjectSubproject
    \/ ProjectReturn
    \/ GetResults
    \/ Render

SpecProj == InitProj /\ [][Next]_vars

\* runs with --maintainer: any maintainer, any metadata.xml
InitMaint ==
    \E m \in {<<"dev">>, <<"dev", "@g.o">>, Dev, Joe, P2, <<"maintainer-needed">>,
              <<"maintainer-needed", "@g.o">>},
       p \in BOOLEAN,
       ps \in { <<>>,
                <<Project(P1, <<Dev>>, <<>>),
                  Project(P2, <<Joe>>, <<Subproject(P1, "1")>>)>>,
                <<Project(P1, <<Joe>>, <<>>),
                  Project(P2, <<>>, <<Subproject(P1, "0")>>)>> },
       rp \in [PackageDirs -> MetadataFiles],
       fs \in Documents({"a"}, {"p", "q"}, {"1"}, {"X"}, MaxFiltered) :
        Start([NoArgs EXCEPT !.maintainer = m, !.projects = p],
              [X |-> "err"], EmptyDict, fs, rp, ps)

SpecMaint == InitMaint /\ [][Next]_vars

Init == InitGroup \/ InitMap \/ InitPkg \/ InitProj \/ InitMaint

Spec == Init /\ [][Next]_vars

----------------------------------------------------------------------------
(* Properties of the grouping, under SpecGroup *)

Text(r, key) == IF key \in DOMAIN r THEN r[key] ELSE ""

\* the locator of a result up to its first empty component
LocatorPrefix(r) ==
    LET t == <<Text(r, "category"), Text(r, "package"), Text(r, "version")>>
        n == CHOOSE k \in 0..3 :
                 /\ \A j \in 1..k : t[j] # ""
                 /\ k < 3 => t[k + 1] = ""
    IN  SubSeq(t, 1, n)

IsNode(x) == "items" \in DOMAIN x

\* the results of a tree, left to right
RECURSIVE Leaves(_)
Leaves(items) ==
    IF items = <<>> THEN <<>>
    ELSE (IF IsNode(Head(items)) THEN Leaves(Head(items).items)
          ELSE <<Head(items)>>) \o Leaves(Tail(items))

\* the results of a tree, each with the groups of the nodes above it
RECURSIVE Paths(_, _)
Paths(items, above) ==
    UNION {IF IsNode(items[i])
           THEN Paths(items[i].items, Append(above, items[i].group))
           ELSE {<<above, items[i]>>} : i \in 1..Len(items)}

\* C2: the leaves of deep_group(results), read in tree order, are the sorted
\* results themselves: each result once, in the order of the list
C2_LeavesAreResults == pc = "done" => Leaves(tree) = results

C2_Witness ==
    /\ pc = "done" /\ Len(results) = 3 /\ Len(tree) = 2
    /\ \E i \in 1..2 : result_sort_key(results[i]) = result_sort_key(results[i + 1])

\* C4: every result whose css_class is 'err' is in the errors index: there is
\* an entry for its class, holding its locator cut to category and package
C4_ErrorsComplete ==
    pc = "done" =>
        \A i \in 1..Len(results) :
            css_class(results[i]) = "err" =>
                \E n \in 1..Len(errors) :
                    /\ errors[n][1] = Text(results[i], "class")
                    /\ InList(Slice(LocatorPrefix(results[i]), 2), errors[n][2])

C4_Witness ==
    /\ pc = "done"
    /\ \E n \in 1..Len(errors) : Len(errors[n][2]) = 2
    /\ \E i, j \in 1..Len(results) :
          /\ i < j
          /\ css_class(results[i]) = "err" /\ css_class(results[j]) = "err"
          /\ LocatorPrefix(results[i]) = LocatorPrefix(results[j])
          /\ Len(LocatorPrefix(results[i])) = 3

\* C9 as claimed: a result lies under as many nodes as its locator has
\* components before the first empty one: 3 with category, package and
\* version, none without a category
C9_DepthIsLocatorLength ==
    pc = "done" =>
        \A p \in Paths(tree, <<>>) : Len(p[1]) = Len(LocatorPrefix(p[2]))

\* C9 amended: every result lies under exactly 3 nodes (category, package,
\* version), and the node at level n carries the locator cut to its first n
\* components, so that a locator exhausted earlier is repeated further down;
\* without results the tree is one chain of 3 nodes with the empty group
C9_DepthIsThree ==
    pc = "done" =>
        /\ \A p \in Paths(tree, <<>>) :
              /\ Len(p[1]) = 3
              /\ \A n \in 1..3 : p[1][n] = Slice(LocatorPrefix(p[2]), n)
        /\ results = <<>> =>
              LET n3 == [group |-> <<>>, items |-> <<>>]
                  n2 == [group |-> <<>>, items |-> <<n3>>]
              IN  tree = <<[group |-> <<>>, items |-> <<n2>>]>>

C9_Witness ==
    /\ pc = "done"
    /\ \E p, q \in Paths(tree, <<>>) :
          /\ LocatorPrefix(p[2]) = <<>> /\ p[1] = <<<<>>, <<>>, <<>>>>
          /\ Len(LocatorPrefix(q[2])) = 3

\* C10: at each level 1, 2 and 3 group_results yields no group twice over the
\* sorted results; no list it yields is empty unless there is no result at
\* all, and then it yields the empty group with the empty list and no more
C10_RunsAreWhole ==
    pc \in {"render", "done"} =>
        \A level \in 1..3 :
            LET gs == group_results(results, level)
            IN  /\ \A i, j \in 1..Len(gs) : i # j => gs[i][1] # gs[j][1]
                /\ results # <<>> => \A i \in 1..Len(gs) : gs[i][2] # <<>>
                /\ results = <<>> => gs = << <<<<>>, <<>>>> >>

C10_Witness ==
    /\ pc = "render" /\ Len(results) = 3
    /\ Len(group_results(results, 3)) = 2
    /\ Len(group_results(results, 1)) = 1
    /\ results # files
    /\ \E i \in 1..3 : Text(results[i], "package") = ""

----------------------------------------------------------------------------
(* Properties of the classification, under SpecMap *)

\* the class of r is listed in the excludes for the locator of r
Listed(r) ==
    LET c == Text(r, "category")
        p == Text(r, "package")
        v == Text(r, "version")
    IN  /\ c \in DOMAIN excludes
        /\ p \in DOMAIN excludes[c]
        /\ v \in DOMAIN excludes[c][p]
        /\ \E n \in 1..Len(excludes[c][p][v]) :
              excludes[c][p][v][n] = Text(r, "class")

\* C3: css_class is '' for a class listed in the excludes at the locator of the
\* result, else what class_mapping gives the class, '' if nothing; an excludes
\* table without the category, the package or the version raises nothing
C3_ExcludeWins ==
    /\ pc # "raised"
    /\ pc \in {"render", "done"} =>
        /\ Len(css) = Len(files)
        /\ \A i \in 1..Len(css) :
              css[i] = IF Listed(files[i]) THEN ""
                       ELSE IF Text(files[i], "class") \in DOMAIN class_mapping
                            THEN class_mapping[Text(files[i], "class")]
                            ELSE ""

C3_Witness ==
    /\ pc = "done"
    /\ \E i, j \in 1..Len(css) :
          /\ Listed(files[i]) /\ css[i] = ""
          /\ DictGet(class_mapping, files[i].class, "") = "err"
          /\ ~Listed(files[j]) /\ css[j] = "err"
          /\ Text(files[j], "category") \notin DOMAIN excludes

----------------------------------------------------------------------------
(* Properties of the package filter, under SpecPkg *)

\* s is one of the pieces of --pkg that the commas separate
Piece(s) ==
    \E i \in 1..Len(args.pkg) + 1 :
        /\ i = 1 \/ args.pkg[i - 1] = ","
        /\ i + Len(s) - 1 <= Len(args.pkg)
        /\ SubSeq(args.pkg, i, i + Len(s) - 1) = s
        /\ i + Len(s) > Len(args.pkg) \/ args.pkg[i + Len(s)] = ","

Passed(r) == \E i \in 1..Len(results) : results[i] = r

\* C8 as claimed: with a --pkg, a result passes iff its category and package
\* are both non-empty and category/package is in the list
C8_EmptyNeverPasses ==
    (pc \in {"render", "done"} /\ args.pkg # <<>>) =>
        \A i \in 1..Len(files) :
            Passed(files[i]) <=>
                /\ Text(files[i], "category") # ""
                /\ Text(files[i], "package") # ""
                /\ Piece(<<files[i].category, "/", files[i].package>>)

\* C8 amended: with a --pkg, a result passes iff category + '/' + package is
\* in the list, an empty or missing category or package being the empty
\* string: a result without a category passes for the entry '/package', one
\* without a package for 'category/', one without both for '/'
C8_PassesIffListed ==
    (pc \in {"render", "done"} /\ args.pkg # <<>>) =>
        \A i \in 1..Len(files) :
            Passed(files[i]) <=>
                Piece((IF Text(files[i], "category") = "" THEN <<>>
                       ELSE <<files[i].category>>)
                      \o <<"/">> \o
                      (IF Text(files[i], "package") = "" THEN <<>>
                       ELSE <<files[i].package>>))

C8_Witness ==
    /\ pc = "done" /\ args.pkg # <<>> /\ Len(files) = 2 /\ Len(results) = 1
    /\ Text(results[1], "category") = ""
    /\ \E i \in 1..2 : /\ ~Passed(files[i])
                       /\ Text(files[i], "category") # ""
                       /\ Text(files[i], "package") # ""

----------------------------------------------------------------------------
(* Properties of the project resolution, under SpecProj *)

\* project a inherits the members of project b
Inherits(a, b) ==
    \E i \in 1..Len(projects), n \in 1..3 :
        /\ projects[i].email = a
        /\ n <= Len(projects[i].subproject)
        /\ projects[i].subproject[n] = Subproject(b, "1")

\* C1: with P1 inheriting from P2 and P2 from P1, the resolution of every
\* project comes to its end, and a maintainer who is a member of P1 is found
\* to be a member of P2
C1_CycleResolves ==
    (Inherits(P1, P2) /\ Inherits(P2, P1)) =>
        /\ exc # "RecursionError"
        /\ (pc \in {"results", "render", "done"}
               /\ InList(args.maintainer, projects[1].member))
           => <<"p2", "@g.o">> \in match

----------------------------------------------------------------------------
(* Properties of the maintainer lookup and filter, under SpecMaint *)

\* an e-mail address of metadata.xml, name and domain, as the index holds it
Short(email) ==
    IF Len(email) = 2 /\ email[2] = "@gentoo.org" THEN <<email[1], "@g.o">>
    ELSE email

\* the e-mails a metadata.xml lists, as the index holds them
Listed_emails(md) ==
    [i \in 1..Len(md.maintainer) |->
        IF "email" \in DOMAIN md.maintainer[i]
        THEN Short(md.maintainer[i].email) ELSE <<>>]

HasEmails(md) == \A i \in 1..Len(md.maintainer) : "email" \in DOMAIN md.maintainer[i]

C6_FailuresAreNotFound ==
    /\ exc \notin {"XMLSyntaxError", "AttributeError"}
    /\ \A n \in 1..Len(lookups) :
          LET md == repo[lookups[n].k]
          IN  (md.parse # "ok" \/ ~HasEmails(md)) =>
                  /\ lookups[n].exc = "none"
                  /\ lookups[n].value = <<>>

\* the projects whose members a inherits, a itself among them
RECURSIVE Closure(_)
Closure(S) ==
    LET T == S \cup {projects[i].email : i \in
                        {j \in 1..Len(projects) : \E a \in S : Inherits(a, projects[j].email)}}
    IN  IF T = S THEN S ELSE Closure(T)

\* the transitive members of project a
TransitiveMembers(a) ==
    UNION {FrozenSet(projects[i].member) : i \in
              {j \in 1..Len(projects) : projects[j].email \in Closure({a})}}

\* the -m value as an address: a bare name and name@g.o are name@gentoo.org
Address(m) ==
    IF Len(m) = 1 \/ m[2] = "@g.o" THEN <<m[1], "@gentoo.org">> ELSE m

\* the -m value as the index holds it
Identity(m) ==
    IF Address(m) = <<"maintainer-needed", "@gentoo.org">>
    THEN <<"maintainer-needed">>
    ELSE Short(Address(m))

\* C7: a result that passes the maintainer filter has, in the index entry of
\* its category/package, the maintainer given or, with --projects only, a
\* project of which the maintainer is a transitive member
C7_SurvivorsAreMaintained ==
    (pc \in {"render", "done"} /\ argv.maintainer # <<>>) =>
        \A i \in 1..Len(results) :
            \E n \in 1..Len(lookups) :
                /\ lookups[n].k = <<results[i].category, "/", results[i].package>>
                /\ lookups[n].exc = "none"
                /\ \/ InList(Identity(argv.maintainer), lookups[n].value)
                   \/ /\ argv.projects
                      /\ \E j \in 1..Len(projects) :
                            /\ Address(argv.maintainer)
                                   \in TransitiveMembers(projects[j].email)
                            /\ InList(Short(projects[j].email), lookups[n].value)

C7_Witness ==
    /\ pc = "done" /\ argv.maintainer = <<"dev">> /\ argv.projects
    /\ Len(files) = 2 /\ Len(results) = 1
    /\ \E n \in 1..Len(lookups) :
          /\ lookups[n].k = <<results[1].category, "/", results[1].package>>
          /\ lookups[n].value = <<Joe, <<"p2", "@g.o">>>>

====
